---- MODULE Spec2Model ----
(***************************************************************************)
(* A model of instagram_follow_checker.py: the session manager             *)
(* (login_with_env), the comparator (compare_followers_and_following),     *)
(* the profile enricher (fetch_user_details) and the report writer         *)
(* (save_to_file), over a small file system.                               *)
(*                                                                         *)
(* Python strings are sequences of one-character strings, so that          *)
(* formatting, stripping, sorting and splitting into lines are computed.   *)
(* A path is the sequence of its components: "outputs/fans.txt" is         *)
(* <<"outputs", "fans.txt">>.                                              *)
(***************************************************************************)
EXTENDS Integers, Sequences, FiniteSets, TLC

VARIABLES
    pc,                 \* position of the running function
    err,                \* the exception that ended the call ("" if none)
    env,                \* os.environ: key -> [set, val]
    session,            \* the session file: [exists, data]
    dirs,               \* directories that exist (paths)
    files,              \* text files: path -> [exists, data]
    cl,                 \* the Client object of login_with_env: [settings]
    log,                \* calls made in the current call: client, file system, input()
    typed,              \* what the user typed at the 2FA prompt
    verification_code,  \* local of login_with_env
    followers,          \* local of compare: the fetched usernames, in iteration order
    following,          \* local of compare
    run,                \* number of the current run of compare / call of save_to_file
    last,               \* the previous completed run: [F, G, files]
    usernames,          \* argument of fetch_user_details / save_to_file
    filename,           \* argument of save_to_file
    idx,                \* loop position of fetch_user_details
    user_data,          \* local of fetch_user_details
    failed_users,       \* local of fetch_user_details
    lookups,            \* per lookup made: [raised, error] of user_info_by_username
    before              \* the file system when the current call began

vars == <<pc, err, env, session, dirs, files, cl, log, typed, verification_code,
          followers, following, run, last, usernames, filename,
          idx, user_data, failed_users, lookups, before>>

loginVars == <<cl, typed, verification_code>>
cmpVars == <<followers, following, run, last>>
enrVars == <<idx, user_data, failed_users, lookups>>
argVars == <<usernames, filename>>
fsVars == <<dirs, files>>

-----------------------------------------------------------------------------
(* Strings *)

\* ord(c): the code point Python compares strings by
Ord(c) ==
    CASE c = "\n" -> 10
      [] c = " " -> 32
      [] c = "0" -> 48
      [] c = "1" -> 49
      [] c = ":" -> 58
      [] c = "a" -> 97
      [] c = "b" -> 98
      [] c = "e" -> 101
      [] c = "m" -> 109
      [] c = "p" -> 112
      [] c = "w" -> 119
      [] c = "x" -> 120

\* s < t on Python str: lexicographic by code point, a proper prefix first
RECURSIVE StrLess(_, _)
StrLess(s, t) ==
    IF t = <<>> THEN FALSE
    ELSE IF s = <<>> THEN TRUE
    ELSE IF Head(s) = Head(t) THEN StrLess(Tail(s), Tail(t))
    ELSE Ord(Head(s)) < Ord(Head(t))

\* str.isspace() of one character
IsSpace(c) == c \in {" ", "\n"}

RECURSIVE LStrip(_)
LStrip(s) == IF s # <<>> /\ IsSpace(Head(s)) THEN LStrip(Tail(s)) ELSE s

RECURSIVE RStrip(_)
RStrip(s) ==
    IF s # <<>> /\ IsSpace(s[Len(s)]) THEN RStrip(SubSeq(s, 1, Len(s) - 1)) ELSE s

\* str.strip()
Strip(s) == RStrip(LStrip(s))

-----------------------------------------------------------------------------
(* Environment *)

SetTo(v) == [set |-> TRUE, val |-> v]
Unset == [set |-> FALSE, val |-> <<>>]

\* os.getenv(key): None when the key is not set
os_getenv(key) == env[key]

\* `not value` on an Optional[str]
Falsy(value) == ~value.set \/ value.val = <<>>

OnlyNone(value) == ~value.set

\* the condition under which get_env_variable raises ValueError
EnvMissing(value) == Falsy(value)

get_env_variable(key) ==
    LET value == os_getenv(key)
    IN  IF EnvMissing(value) THEN [raises |-> TRUE, value |-> <<>>]
        ELSE [raises |-> FALSE, value |-> value.val]

-----------------------------------------------------------------------------
(* File system *)

NoFile == [exists |-> FALSE, data |-> <<>>]
File(data) == [exists |-> TRUE, data |-> data]

NoSession == [exists |-> FALSE, data |-> {}]

\* what the current call found on disk
Snapshot == [session |-> session, dirs |-> dirs, files |-> files]

\* an entry of the call log
Call(op, res) == [op |-> op, res |-> res, with |-> cl.settings, arg |-> <<>>]

Ops(l) == {l[k].op : k \in 1..Len(l)}
Count(l, op) == Cardinality({k \in 1..Len(l) : l[k].op = op})

-----------------------------------------------------------------------------
(* login_with_env *)

OUTPUTS == <<"outputs">>
NOT_FOLLOWING_BACK == <<"outputs", "not_following_back.txt">>
FANS == <<"outputs", "fans.txt">>
SKIPPED_USERS == <<"outputs", "skipped_users.txt">>

OutputPaths == {NOT_FOLLOWING_BACK, FANS, SKIPPED_USERS}

\* the paths the model follows: the three reports and two more targets of
\* save_to_file, one without a directory part and one two directories deep
Paths == OutputPaths \cup {<<"fans.txt">>, <<"reports", "old", "fans.txt">>}

\* a report left by an earlier run
OldText == <<"x", "\n">>

\* file systems a call can start from: no outputs directory yet, or one with
\* any of the reports left by earlier runs
Disks ==
    {[dirs |-> {}, files |-> [p \in Paths |-> NoFile]]} \cup
    {[dirs |-> {OUTPUTS},
      files |-> [p \in Paths |-> IF p \in present THEN File(OldText) ELSE NoFile]] :
        present \in SUBSET OutputPaths}

\* values a .env file can give a key: absent, empty, a value
EnvValues == {Unset, SetTo(<<>>), SetTo(<<"m", "e">>)}

\* session files a run can find: none, one dumped by an earlier run, a damaged one
SavedSessions == {NoSession,
                  [exists |-> TRUE, data |-> {"saved"}],
                  [exists |-> TRUE, data |-> {"garbled"}]}

\* what the user can type at the prompt
TypedInputs == {<<"0", "1">>, <<" ", "0", "1", " ">>, <<"1">>}

LoginOutcomes == {"ok", "TwoFactorRequired", "Exception"}

\* cl = Client()
NewClient ==
    /\ pc = "L54"
    /\ cl' = [settings |-> {}]
    /\ pc' = "L55"
    /\ UNCHANGED <<err, env, session, fsVars, log, typed, verification_code,
                   cmpVars, enrVars, argVars, before>>

\* username = get_env_variable("IG_USERNAME")
GetUsername ==
    /\ pc = "L55"
    /\ IF get_env_variable("IG_USERNAME").raises
       THEN pc' = "raised" /\ err' = "ValueError"
       ELSE pc' = "L56" /\ err' = err
    /\ UNCHANGED <<env, session, fsVars, loginVars, log, cmpVars, enrVars, argVars, before>>

\* password = get_env_variable("IG_PASSWORD")
GetPassword ==
    /\ pc = "L56"
    /\ IF get_env_variable("IG_PASSWORD").raises
       THEN pc' = "raised" /\ err' = "ValueError"
       ELSE pc' = "L59" /\ err' = err
    /\ UNCHANGED <<env, session, fsVars, loginVars, log, cmpVars, enrVars, argVars, before>>

\* if os.path.exists(session_file):
CheckSession ==
    /\ pc = "L59"
    /\ pc' = IF session.exists THEN "L61" ELSE "L72"
    /\ UNCHANGED <<err, env, session, fsVars, loginVars, log, cmpVars, enrVars, argVars, before>>

\* cl.load_settings(session_file): the client takes the file's content, or
\* raises on a file it cannot parse
LoadSettings ==
    /\ pc = "L61"
    /\ IF "garbled" \in session.data
       THEN /\ log' = Append(log, Call("load_settings", "Exception"))
            /\ pc' = "L68"
            /\ cl' = cl
       ELSE /\ log' = Append(log, Call("load_settings", "ok"))
            /\ cl' = [cl EXCEPT !.settings = session.data]
            /\ pc' = "L62"
    /\ UNCHANGED <<err, env, session, fsVars, typed, verification_code,
                   cmpVars, enrVars, argVars, before>>

\* cl.login(username, password) inside the try: any exception goes to the handler
LoginSaved ==
    /\ pc = "L62"
    /\ \E res \in LoginOutcomes :
         /\ log' = Append(log, Call("login_saved", res))
         /\ IF res = "ok"
            THEN pc' = "L63" /\ cl' = [cl EXCEPT !.settings = @ \cup {"auth"}]
            ELSE pc' = "L68" /\ cl' = cl
    /\ UNCHANGED <<err, env, session, fsVars, typed, verification_code,
                   cmpVars, enrVars, argVars, before>>

\* cl.get_timeline_feed(); return cl
ProbeSaved ==
    /\ pc = "L63"
    /\ \E res \in {"ok", "Exception"} :
         /\ log' = Append(log, Call("get_timeline_feed", res))
         /\ pc' = IF res = "ok" THEN "returned" ELSE "L68"
    /\ UNCHANGED <<err, env, session, fsVars, loginVars, cmpVars, enrVars, argVars, before>>

RemoveSession_keep ==
    /\ pc = "L68"
    /\ log' = Append(log, Call("remove", "ok"))
    /\ pc' = "L72"
    /\ UNCHANGED <<err, env, session, fsVars, loginVars, cmpVars, enrVars, argVars, before>>

\* except Exception: os.remove(session_file)
RemoveSession ==
    /\ pc = "L68"
    /\ log' = Append(log, Call("remove", "ok"))
    /\ session' = NoSession
    /\ pc' = "L72"
    /\ UNCHANGED <<err, env, fsVars, loginVars, cmpVars, enrVars, argVars, before>>

\* try: cl.login(username, password)   except TwoFactorRequired: ...
\* The call is made on the cl of lines 54-63: nothing in between resets the
\* settings that load_settings put into it.
FreshLogin ==
    /\ pc = "L72"
    /\ \E res \in LoginOutcomes :
         /\ log' = Append(log, Call("login", res))
         /\ CASE res = "ok" ->
                   pc' = "L81" /\ cl' = [cl EXCEPT !.settings = @ \cup {"auth"}] /\ err' = err
              [] res = "TwoFactorRequired" ->
                   pc' = "L76" /\ cl' = cl /\ err' = err
              [] res = "Exception" ->
                   pc' = "raised" /\ cl' = cl /\ err' = "Exception"
    /\ UNCHANGED <<env, session, fsVars, typed, verification_code,
                   cmpVars, enrVars, argVars, before>>

\* verification_code = input(...).strip()
Prompt ==
    /\ pc = "L76"
    /\ \E t \in TypedInputs :
         /\ typed' = t
         /\ verification_code' = Strip(t)
    /\ log' = Append(log, Call("input", "ok"))
    /\ pc' = "L77"
    /\ UNCHANGED <<err, env, session, fsVars, cl, cmpVars, enrVars, argVars, before>>

Login2FA_reprompt ==
    /\ pc = "L77"
    /\ \E res \in LoginOutcomes :
         /\ log' = Append(log, [Call("login_2fa", res) EXCEPT !.arg = verification_code])
         /\ IF res = "ok"
            THEN pc' = "L81" /\ cl' = [cl EXCEPT !.settings = @ \cup {"auth"}] /\ err' = err
            ELSE pc' = "L76" /\ cl' = cl /\ err' = err
    /\ UNCHANGED <<env, session, fsVars, typed, verification_code,
                   cmpVars, enrVars, argVars, before>>

\* cl.login(username, password, verification_code=verification_code)
Login2FA ==
    /\ pc = "L77"
    /\ \E res \in LoginOutcomes :
         /\ log' = Append(log, [Call("login_2fa", res) EXCEPT !.arg = verification_code])
         /\ IF res = "ok"
            THEN pc' = "L81" /\ cl' = [cl EXCEPT !.settings = @ \cup {"auth"}] /\ err' = err
            ELSE pc' = "raised" /\ cl' = cl /\ err' = res
    /\ UNCHANGED <<env, session, fsVars, typed, verification_code,
                   cmpVars, enrVars, argVars, before>>

\* cl.dump_settings(session_file); return cl
DumpSettings ==
    /\ pc = "L81"
    /\ session' = [exists |-> TRUE, data |-> cl.settings]
    /\ log' = Append(log, Call("dump_settings", "ok"))
    /\ pc' = "returned"
    /\ UNCHANGED <<err, env, fsVars, loginVars, cmpVars, enrVars, argVars, before>>

\* the variables of the other functions, at rest
IdleLogin ==
    /\ cl = [settings |-> {}]
    /\ typed = <<>>
    /\ verification_code = <<>>

IdleCompare ==
    /\ followers = <<>>
    /\ following = <<>>
    /\ run = 0
    /\ last = [F |-> {}, G |-> {}, files |-> [p \in Paths |-> NoFile]]

IdleEnrich ==
    /\ idx = 0
    /\ user_data = <<>>
    /\ failed_users = <<>>
    /\ lookups = <<>>

IdleArgs ==
    /\ usernames = <<>>
    /\ filename = <<>>

InitLogin ==
    /\ pc = "L54"
    /\ err = ""
    /\ env \in [{"IG_USERNAME", "IG_PASSWORD"} -> EnvValues]
    /\ session \in SavedSessions
    /\ \E d \in Disks : dirs = d.dirs /\ files = d.files
    /\ log = <<>>
    /\ before = Snapshot
    /\ IdleLogin /\ IdleCompare /\ IdleEnrich /\ IdleArgs

NextLogin ==
    \/ NewClient
    \/ GetUsername
    \/ GetPassword
    \/ CheckSession
    \/ LoadSettings
    \/ LoginSaved
    \/ ProbeSaved
    \/ RemoveSession
    \/ FreshLogin
    \/ Prompt
    \/ Login2FA
    \/ DumpSettings

SpecLogin == InitLogin /\ [][NextLogin]_vars

-----------------------------------------------------------------------------
(* compare_followers_and_following *)

\* usernames the platform can return
Names == {<<"a">>, <<"a", "b">>, <<"b">>}

\* longest collection a bulk fetch returns in the model
MaxFetched == 3

\* what user_followers / user_following can return: the usernames of the
\* users in the order .values() iterates them, repeats allowed
Fetched == UNION {[1..n -> Names] : n \in 0..MaxFetched}

\* {user.username for user in coll.values()}, and set(list)
SetOf(coll) == {coll[k] : k \in 1..Len(coll)}

sorted_reversed(set) ==
    LET RECURSIVE Build(_)
        Build(rest) ==
            IF rest = {} THEN <<>>
            ELSE LET m == CHOOSE x \in rest : \A y \in rest \ {x} : StrLess(y, x)
                 IN  <<m>> \o Build(rest \ {m})
    IN  Build(set)

\* sorted(set): ascending by Python's str order
sorted(set) ==
    LET RECURSIVE Build(_)
        Build(rest) ==
            IF rest = {} THEN <<>>
            ELSE LET m == CHOOSE x \in rest : \A y \in rest \ {x} : StrLess(x, y)
                 IN  <<m>> \o Build(rest \ {m})
    IN  Build(set)

followers_usernames == sorted(SetOf(followers))
following_usernames == sorted(SetOf(following))

not_following_back == sorted(SetOf(following_usernames) \ SetOf(followers_usernames))
not_followed_back == sorted(SetOf(followers_usernames) \ SetOf(following_usernames))

\* the text f.writelines(f"{user}\n" for user in items) writes
RECURSIVE writelines(_)
writelines(items) ==
    IF items = <<>> THEN <<>>
    ELSE Head(items) \o <<"\n">> \o writelines(Tail(items))

\* os.path.dirname(path)
dirname(path) == SubSeq(path, 1, Len(path) - 1)

\* the directories os.makedirs(d, exist_ok=True) leaves on disk
makedirs(d) == dirs \cup {SubSeq(d, 1, n) : n \in 1..Len(d)}

open_a(path, text) == [files EXCEPT ![path] = File(@.data \o text)]

\* with open(path, "w") as f: f.write(text)  -- the file is truncated first
open_w(path, text) == [files EXCEPT ![path] = File(text)]

\* user_id = cl.user_id_from_username(username)
ResolveId ==
    /\ pc = "L141"
    /\ \E res \in {"ok", "Exception"} :
         /\ log' = Append(log, Call("user_id_from_username", res))
         /\ IF res = "ok" THEN pc' = "L144" /\ err' = err
                          ELSE pc' = "raised" /\ err' = res
    /\ UNCHANGED <<env, session, fsVars, loginVars, cmpVars, enrVars, argVars, before>>

\* followers = cl.user_followers(user_id)
FetchFollowers ==
    /\ pc = "L144"
    /\ \/ /\ \E got \in Fetched : followers' = got
          /\ log' = Append(log, Call("user_followers", "ok"))
          /\ pc' = "L148"
          /\ err' = err
       \/ /\ log' = Append(log, Call("user_followers", "Exception"))
          /\ pc' = "raised"
          /\ err' = "Exception"
          /\ followers' = followers
    /\ UNCHANGED <<env, session, fsVars, loginVars, following, run, last,
                   enrVars, argVars, before>>

FetchFollowing_swallow ==
    /\ pc = "L148"
    /\ \/ /\ \E got \in Fetched : following' = got
          /\ log' = Append(log, Call("user_following", "ok"))
          /\ pc' = "L151"
          /\ err' = err
       \/ /\ log' = Append(log, Call("user_following", "Exception"))
          /\ pc' = "L151"
          /\ err' = err
          /\ following' = following
    /\ UNCHANGED <<env, session, fsVars, loginVars, followers, run, last,
                   enrVars, argVars, before>>

\* following = cl.user_following(user_id)
FetchFollowing ==
    /\ pc = "L148"
    /\ \/ /\ \E got \in Fetched : following' = got
          /\ log' = Append(log, Call("user_following", "ok"))
          /\ pc' = "L151"
          /\ err' = err
       \/ /\ log' = Append(log, Call("user_following", "Exception"))
          /\ pc' = "raised"
          /\ err' = "Exception"
          /\ following' = following
    /\ UNCHANGED <<env, session, fsVars, loginVars, followers, run, last,
                   enrVars, argVars, before>>

\* the four sorted lists, then os.makedirs("outputs", exist_ok=True)
MakeOutputs ==
    /\ pc = "L151"
    /\ dirs' = makedirs(OUTPUTS)
    /\ log' = Append(log, Call("makedirs", "ok"))
    /\ pc' = "L160"
    /\ UNCHANGED <<err, env, session, files, loginVars, cmpVars, enrVars, argVars, before>>

\* with open("outputs/not_following_back.txt", "w") as f: f.writelines(...)
WriteNotFollowingBack ==
    /\ pc = "L160"
    /\ files' = open_w(NOT_FOLLOWING_BACK, writelines(not_following_back))
    /\ log' = Append(log, Call("write_not_following_back", "ok"))
    /\ pc' = "L163"
    /\ UNCHANGED <<err, env, session, dirs, loginVars, cmpVars, enrVars, argVars, before>>

\* with open("outputs/fans.txt", "w") as f: f.writelines(...)
WriteFans ==
    /\ pc = "L163"
    /\ files' = open_w(FANS, writelines(not_followed_back))
    /\ log' = Append(log, Call("write_fans", "ok"))
    /\ pc' = "returned"
    /\ UNCHANGED <<err, env, session, dirs, loginVars, cmpVars, enrVars, argVars, before>>

\* the script is run again after a run that completed (line 175 of the next
\* process): the locals are gone, the disk stays
RunAgain ==
    /\ pc = "returned"
    /\ run = 1
    /\ run' = 2
    /\ last' = [F |-> SetOf(followers), G |-> SetOf(following), files |-> files]
    /\ followers' = <<>>
    /\ following' = <<>>
    /\ log' = <<>>
    /\ before' = Snapshot
    /\ pc' = "L141"
    /\ UNCHANGED <<err, env, session, fsVars, loginVars, enrVars, argVars>>

\* reports an earlier run can have left: none, or any of the two
CompareDisks == {d \in Disks : ~d.files[SKIPPED_USERS].exists}

InitCompare ==
    /\ pc = "L141"
    /\ err = ""
    /\ env = [k \in {"IG_USERNAME", "IG_PASSWORD"} |-> SetTo(<<"m", "e">>)]
    /\ session = [exists |-> TRUE, data |-> {"auth"}]
    /\ \E d \in CompareDisks : dirs = d.dirs /\ files = d.files
    /\ log = <<>>
    /\ before = Snapshot
    /\ followers = <<>>
    /\ following = <<>>
    /\ run = 1
    /\ last = [F |-> {}, G |-> {}, files |-> [p \in Paths |-> NoFile]]
    /\ cl = [settings |-> {"auth"}]
    /\ typed = <<>>
    /\ verification_code = <<>>
    /\ IdleEnrich /\ IdleArgs

NextCompare ==
    \/ ResolveId
    \/ FetchFollowers
    \/ FetchFollowing
    \/ MakeOutputs
    \/ WriteNotFollowingBack
    \/ WriteFans
    \/ RunAgain

SpecCompare == InitCompare /\ [][NextCompare]_vars

-----------------------------------------------------------------------------
(* fetch_user_details *)

\* longest list of usernames looked up in the model
MaxUsers == 2

Requests == UNION {[1..n -> Names] : n \in 0..MaxUsers}

\* Optional values: None, or a value
NoneStr == [none |-> TRUE, val |-> <<>>]
NoneBool == [none |-> TRUE, val |-> FALSE]
NoneInt == [none |-> TRUE, val |-> 0]
Some(v) == [none |-> FALSE, val |-> v]

\* the User objects user_info_by_username(username) can return: the
\* library's User has str username and full_name, bool is_private and
\* is_verified, Optional[int] account_type; the username is the platform's,
\* which need not be spelled as requested
Users(username) ==
    {[username |-> u, full_name |-> Some(n), is_private |-> Some(p),
      account_type |-> NoneInt, is_verified |-> Some(v)] :
        u \in {username, <<"a">>}, n \in {<<>>, <<"x">>}, p \in BOOLEAN,
        v \in BOOLEAN}

\* str(e) of the exceptions a lookup can raise: one line, or several (as
\* the message of a validation error is)
ErrorTexts == {<<"e">>, <<"e", "\n", "e">>}

\* the dict appended when the lookup raised
NullRecord(username) ==
    [username |-> username, full_name |-> NoneStr, is_private |-> NoneBool,
     account_type |-> NoneInt, is_verified |-> NoneBool]

\* f"{username}: {error}\n"
FailureLine(username, error) == username \o <<":", " ">> \o error \o <<"\n">>

\* the text the loop over failed_users writes
RECURSIVE FailureText(_)
FailureText(failed) ==
    IF failed = <<>> THEN <<>>
    ELSE FailureLine(Head(failed)[1], Head(failed)[2]) \o FailureText(Tail(failed))

\* for username in usernames: try: user = ...; user_data.append({...})
LookupOk ==
    /\ pc = "L100"
    /\ idx < Len(usernames)
    /\ \E user \in Users(usernames[idx + 1]) :
         user_data' = Append(user_data, user)
    /\ lookups' = Append(lookups, [raised |-> FALSE, error |-> <<>>])
    /\ idx' = idx + 1
    /\ UNCHANGED <<pc, err, env, session, fsVars, loginVars, log, cmpVars,
                   failed_users, argVars, before>>

LookupFails_skip ==
    /\ pc = "L100"
    /\ idx < Len(usernames)
    /\ \E e \in ErrorTexts :
         /\ failed_users' = Append(failed_users, <<usernames[idx + 1], e>>)
         /\ lookups' = Append(lookups, [raised |-> TRUE, error |-> e])
    /\ user_data' = user_data
    /\ idx' = idx + 1
    /\ UNCHANGED <<pc, err, env, session, fsVars, loginVars, log, cmpVars,
                   argVars, before>>

\* except Exception as e: user_data.append({... None ...});
\* failed_users.append((username, str(e)))
LookupFails ==
    /\ pc = "L100"
    /\ idx < Len(usernames)
    /\ \E e \in ErrorTexts :
         /\ failed_users' = Append(failed_users, <<usernames[idx + 1], e>>)
         /\ lookups' = Append(lookups, [raised |-> TRUE, error |-> e])
    /\ user_data' = Append(user_data, NullRecord(usernames[idx + 1]))
    /\ idx' = idx + 1
    /\ UNCHANGED <<pc, err, env, session, fsVars, loginVars, log, cmpVars,
                   argVars, before>>

\* the loop is exhausted
LoopEnd ==
    /\ pc = "L100"
    /\ idx = Len(usernames)
    /\ pc' = "L123"
    /\ UNCHANGED <<err, env, session, fsVars, loginVars, log, cmpVars, enrVars,
                   argVars, before>>

\* if failed_users: makedirs, write outputs/skipped_users.txt; return user_data
SaveFailed ==
    /\ pc = "L123"
    /\ failed_users # <<>>
    /\ dirs' = makedirs(OUTPUTS)
    /\ files' = open_w(SKIPPED_USERS, FailureText(failed_users))
    /\ log' = Append(log, Call("write_skipped_users", "ok"))
    /\ pc' = "returned"
    /\ UNCHANGED <<err, env, session, loginVars, cmpVars, enrVars, argVars, before>>

NoFailures_write ==
    /\ pc = "L123"
    /\ failed_users = <<>>
    /\ dirs' = makedirs(OUTPUTS)
    /\ files' = open_w(SKIPPED_USERS, FailureText(failed_users))
    /\ log' = Append(log, Call("write_skipped_users", "ok"))
    /\ pc' = "returned"
    /\ UNCHANGED <<err, env, session, loginVars, cmpVars, enrVars, argVars, before>>

\* failed_users is empty: return user_data
NoFailures ==
    /\ pc = "L123"
    /\ failed_users = <<>>
    /\ pc' = "returned"
    /\ UNCHANGED <<err, env, session, fsVars, loginVars, log, cmpVars, enrVars,
                   argVars, before>>

\* disks the enrichment can start from: with or without an earlier
\* skipped_users.txt
EnrichDisks == {d \in Disks : ~d.files[NOT_FOLLOWING_BACK].exists /\ ~d.files[FANS].exists}

InitEnrich ==
    /\ pc = "L100"
    /\ err = ""
    /\ env = [k \in {"IG_USERNAME", "IG_PASSWORD"} |-> SetTo(<<"m", "e">>)]
    /\ session = [exists |-> TRUE, data |-> {"auth"}]
    /\ \E d \in EnrichDisks : dirs = d.dirs /\ files = d.files
    /\ log = <<>>
    /\ before = Snapshot
    /\ cl = [settings |-> {"auth"}]
    /\ typed = <<>>
    /\ verification_code = <<>>
    /\ usernames \in Requests
    /\ filename = <<>>
    /\ IdleCompare /\ IdleEnrich

NextEnrich ==
    \/ LookupOk
    \/ LookupFails
    \/ LoopEnd
    \/ SaveFailed
    \/ NoFailures

SpecEnrich == InitEnrich /\ [][NextEnrich]_vars

-----------------------------------------------------------------------------
(* save_to_file *)

\* longest list written in the model
MaxItems == 2

Items == UNION {[1..n -> Names] : n \in 0..MaxItems}

\* os.makedirs(os.path.dirname(filename), exist_ok=True): makedirs("") raises
\* FileNotFoundError
SaveMakedirs ==
    /\ pc = "L17"
    /\ IF dirname(filename) = <<>>
       THEN /\ pc' = "raised"
            /\ err' = "FileNotFoundError"
            /\ dirs' = dirs
            /\ log' = Append(log, Call("makedirs", "FileNotFoundError"))
       ELSE /\ pc' = "L20"
            /\ err' = err
            /\ dirs' = makedirs(dirname(filename))
            /\ log' = Append(log, Call("makedirs", "ok"))
    /\ UNCHANGED <<env, session, files, loginVars, cmpVars, enrVars, argVars, before>>

\* with open(filename, 'w') as f: f.writelines(f"{user}\n" for user in usernames)
SaveWrite ==
    /\ pc = "L20"
    /\ files' = open_w(filename, writelines(usernames))
    /\ log' = Append(log, Call("write", "ok"))
    /\ pc' = "returned"
    /\ UNCHANGED <<err, env, session, dirs, loginVars, cmpVars, enrVars, argVars, before>>

\* the caller calls save_to_file again with the same arguments
SaveAgain ==
    /\ pc \in {"returned", "raised"}
    /\ run = 1
    /\ run' = 2
    /\ pc' = "L17"
    /\ err' = ""
    /\ log' = <<>>
    /\ before' = Snapshot
    /\ UNCHANGED <<env, session, fsVars, loginVars, followers, following, last,
                   enrVars, argVars>>

\* targets: a file in the working directory, one in outputs/, one two
\* directories down
SaveTargets == {<<"fans.txt">>, FANS, <<"reports", "old", "fans.txt">>}

InitSave ==
    /\ pc = "L17"
    /\ err = ""
    /\ env = [k \in {"IG_USERNAME", "IG_PASSWORD"} |-> SetTo(<<"m", "e">>)]
    /\ session = NoSession
    /\ \E d \in Disks : dirs = d.dirs /\ files = d.files
    /\ log = <<>>
    /\ before = Snapshot
    /\ filename \in SaveTargets
    /\ usernames \in Items
    /\ followers = <<>>
    /\ following = <<>>
    /\ run = 1
    /\ last = [F |-> {}, G |-> {}, files |-> [p \in Paths |-> NoFile]]
    /\ IdleLogin /\ IdleEnrich

NextSave ==
    \/ SaveMakedirs
    \/ SaveWrite
    \/ SaveAgain

SpecSave == InitSave /\ [][NextSave]_vars

-----------------------------------------------------------------------------
(* Properties of login_with_env *)

ReuseSteps == {"load_settings", "login_saved", "get_timeline_feed"}
FreshSteps == {"login", "login_2fa"}

\* a step of the session reuse raised
ReuseFailed == \E k \in 1..Len(log) : log[k].op \in ReuseSteps /\ log[k].res # "ok"

\* the saved session passed the probe
ReuseSucceeded ==
    \E k \in 1..Len(log) : log[k].op = "get_timeline_feed" /\ log[k].res = "ok"

FreshLoginSucceeded ==
    \E k \in 1..Len(log) : log[k].op \in FreshSteps /\ log[k].res = "ok"

TwoFactorSignalled ==
    \E k \in 1..Len(log) : log[k].op = "login" /\ log[k].res = "TwoFactorRequired"

Prompted == "input" \in Ops(log)

Ended == pc \in {"returned", "raised"}

\* C2: when a reuse step raises, the handler deletes the session file and the
\* fresh login runs; the failure of the reuse step never ends the call; from
\* the deletion until a fresh login has succeeded and the session is dumped
\* there is no session file, and a failed fresh login leaves it absent.
C2_ReuseFailureFallsThrough ==
    ReuseFailed =>
        /\ pc # "L68" => "remove" \in Ops(log)
        /\ ("remove" \in Ops(log) /\ "dump_settings" \notin Ops(log)) => ~session.exists
        /\ "dump_settings" \in Ops(log) => FreshLoginSucceeded
        /\ Ended => "login" \in Ops(log)
        /\ pc = "raised" =>
              /\ log[Len(log)].op \in FreshSteps
              /\ log[Len(log)].res # "ok"
              /\ ~session.exists

C2_Witness ==
    /\ ReuseFailed
    /\ pc = "returned"
    /\ before.session.exists
    /\ session.exists
    /\ log[Len(log)].op = "dump_settings"

\* C3: once a reuse step has failed, no fresh login runs on a client that
\* holds state loaded from the failed session, and neither the returned
\* client nor the session file it dumps holds such state.
C3_FailedSessionNeverReused ==
    ReuseFailed =>
        /\ \A k \in 1..Len(log) : log[k].op \in FreshSteps => "saved" \notin log[k].with
        /\ pc = "returned" => "saved" \notin cl.settings /\ "saved" \notin session.data

\* C4: with IG_USERNAME or IG_PASSWORD absent or empty the call ends in
\* ValueError having made no call on the client and no change to the disk.
C4_MissingCredentialFailsFirst ==
    (\E k \in {"IG_USERNAME", "IG_PASSWORD"} : ~env[k].set \/ env[k].val = <<>>) =>
        /\ pc \in {"L54", "L55", "L56", "raised"}
        /\ pc = "raised" => err = "ValueError"
        /\ log = <<>>
        /\ Snapshot = before

C4_Witness ==
    /\ pc = "raised"
    /\ err = "ValueError"
    /\ env["IG_USERNAME"] = SetTo(<<"m", "e">>)
    /\ env["IG_PASSWORD"] = SetTo(<<>>)
    /\ session.exists

\* C7: the prompt happens exactly when the fresh login signalled a two-factor
\* challenge, at most once; the login is retried exactly once, with the code
\* typed (surrounding blanks removed); a successful retry dumps the session
\* as the last step before returning; a failed retry ends the call with no
\* session file written; a successful reuse never prompts.
C7_OneRoundOfTwoFactor ==
    /\ Count(log, "input") <= 1
    /\ Count(log, "login") <= 1
    /\ Count(log, "login_2fa") <= 1
    /\ Prompted => TwoFactorSignalled
    /\ (TwoFactorSignalled /\ pc # "L76") => Prompted
    /\ (Prompted /\ pc # "L77") =>
          \E k \in 1..Len(log) :
              /\ log[k].op = "login_2fa"
              /\ log[k].arg = Strip(typed)
              /\ log[k - 1].op = "input"
    /\ (Prompted /\ pc = "returned") =>
          /\ log[Len(log)].op = "dump_settings"
          /\ log[Len(log) - 1] = [op |-> "login_2fa", res |-> "ok",
                                  with |-> log[Len(log) - 1].with, arg |-> Strip(typed)]
          /\ session = [exists |-> TRUE, data |-> cl.settings]
    /\ (Prompted /\ pc = "raised") =>
          /\ log[Len(log)].op = "login_2fa"
          /\ log[Len(log)].res # "ok"
          /\ err # ""
          /\ "dump_settings" \notin Ops(log)
          /\ ~session.exists
    /\ ReuseSucceeded => ~Prompted

C7_Witness ==
    /\ pc = "returned"
    /\ Prompted
    /\ typed = <<" ", "0", "1", " ">>
    /\ session.exists

-----------------------------------------------------------------------------
(* Properties of compare_followers_and_following *)

\* the lines of a text: the pieces that "\n" ends, and a last piece without
\* one if the text does not end in "\n"
RECURSIVE Lines(_)
Lines(text) ==
    IF text = <<>> THEN <<>>
    ELSE IF \E k \in 1..Len(text) : text[k] = "\n"
         THEN LET k == CHOOSE k \in 1..Len(text) :
                           text[k] = "\n" /\ \A j \in 1..(k - 1) : text[j] # "\n"
              IN  <<SubSeq(text, 1, k - 1)>> \o Lines(SubSeq(text, k + 1, Len(text)))
         ELSE <<text>>

EndsEachLine(text) == text = <<>> \/ text[Len(text)] = "\n"

\* the file at path holds exactly the strings of set, one per line, each
\* once, ascending
HoldsSorted(path, set) ==
    LET lines == Lines(files[path].data)
    IN  /\ files[path].exists
        /\ EndsEachLine(files[path].data)
        /\ SetOf(lines) = set
        /\ Len(lines) = Cardinality(set)
        /\ \A i, j \in 1..Len(lines) : i < j => StrLess(lines[i], lines[j])

\* C1: after a run, not_following_back.txt holds following minus followers
\* and fans.txt holds followers minus following, each username once, one per
\* line, ascending.
C1_ReportsAreTheSortedDifferences ==
    pc = "returned" =>
        /\ HoldsSorted(NOT_FOLLOWING_BACK, SetOf(following) \ SetOf(followers))
        /\ HoldsSorted(FANS, SetOf(followers) \ SetOf(following))

C1_Witness ==
    /\ pc = "returned"
    /\ followers = <<<<"a", "b">>, <<"a", "b">>>>
    /\ following = <<<<"b">>, <<"a">>>>
    /\ files[NOT_FOLLOWING_BACK].data = <<"a", "\n", "b", "\n">>
    /\ before.files[NOT_FOLLOWING_BACK].exists

\* C9: a second run that fetches the same followers and the same following
\* (in any order, with any repeats) leaves both reports as the first run left
\* them, whatever they held before the first run.
C9_SecondRunSameReports ==
    (/\ run = 2
     /\ pc = "returned"
     /\ SetOf(followers) = last.F
     /\ SetOf(following) = last.G) =>
        /\ files[NOT_FOLLOWING_BACK] = last.files[NOT_FOLLOWING_BACK]
        /\ files[FANS] = last.files[FANS]

C9_Witness ==
    /\ run = 2
    /\ pc = "returned"
    /\ SetOf(followers) = last.F
    /\ SetOf(following) = last.G
    /\ followers = <<<<"b">>, <<"a">>>>
    /\ following = <<<<"a", "b">>>>
    /\ files[FANS].data = <<"a", "\n", "b", "\n">>

CompareOrder == <<"user_id_from_username", "user_followers", "user_following",
                  "makedirs", "write_not_following_back", "write_fans">>

\* C10: the calls of a run are a prefix of resolve, followers, following,
\* makedirs, not_following_back.txt, fans.txt; the disk is as the run found it
\* until both fetches have succeeded, and so it is when the run ends in an
\* exception; fans.txt is written only after not_following_back.txt.
C10_FetchBeforeWrite ==
    /\ Len(log) <= Len(CompareOrder)
    /\ \A k \in 1..Len(log) : log[k].op = CompareOrder[k]
    /\ \A k \in 1..Len(log) : log[k].res # "ok" => k = Len(log) /\ pc = "raised"
    /\ (\E p \in {NOT_FOLLOWING_BACK, FANS} : files[p] # before.files[p]) \/ dirs # before.dirs
          => \E j, k \in 1..Len(log) :
                 /\ log[j] = Call("user_followers", "ok")
                 /\ log[k] = Call("user_following", "ok")
    /\ pc = "raised" => files = before.files /\ dirs = before.dirs /\ Len(log) <= 3
    /\ "write_fans" \in Ops(log) => "write_not_following_back" \in Ops(log)

C10_Witness ==
    /\ pc = "raised"
    /\ log[Len(log)] = Call("user_following", "Exception")
    /\ followers # <<>>
    /\ before.files[FANS].exists
    /\ files[FANS].data = OldText

-----------------------------------------------------------------------------
(* Properties of fetch_user_details *)

AllNull(rec) ==
    /\ rec.full_name.none
    /\ rec.is_private.none
    /\ rec.account_type.none
    /\ rec.is_verified.none

Failures == {i \in 1..Len(lookups) : lookups[i].raised}

\* C5: there is one record per username processed, in request order; the
\* record of lookup i is the requested username with four nulls exactly when
\* lookup i raised; the call processes every username and returns.
C5_OneRecordPerUsername ==
    /\ pc \in {"L100", "L123", "returned"}
    /\ Len(user_data) = idx
    /\ Len(lookups) = idx
    /\ pc \in {"L123", "returned"} => Len(user_data) = Len(usernames)
    /\ \A i \in 1..Len(user_data) :
          lookups[i].raised <=>
              (user_data[i].username = usernames[i] /\ AllNull(user_data[i]))

C5_Witness ==
    /\ pc = "returned"
    /\ usernames = <<<<"a">>, <<"b">>>>
    /\ lookups[1].raised
    /\ ~lookups[2].raised
    /\ user_data[2].username = <<"b">>
    /\ user_data[2].full_name = Some(<<>>)

Written == "write_skipped_users" \in Ops(log)

\* the entries the failed lookups i..n call for
RECURSIVE Entries(_)
Entries(i) ==
    IF i > Len(lookups) THEN <<>>
    ELSE (IF lookups[i].raised
          THEN <<usernames[i] \o <<":", " ">> \o lookups[i].error>>
          ELSE <<>>) \o Entries(i + 1)

RECURSIVE Joined(_)
Joined(entries) ==
    IF entries = <<>> THEN <<>>
    ELSE Head(entries) \o <<"\n">> \o Joined(Tail(entries))

\* skipped_users.txt is written only after the last lookup and only if one
\* failed, and is otherwise as the call found it
WrittenOnlyOnFailure ==
    /\ Written => (idx = Len(usernames) /\ pc = "returned" /\ Failures # {})
    /\ ~Written => (files = before.files /\ dirs = before.dirs)
    /\ (pc = "returned" /\ Failures # {}) => Written

-----------------------------------------------------------------------------
(* Properties of save_to_file *)

\* C8: every call succeeds; afterwards the parent directory exists and the
\* file holds exactly the items, one per line, in order, in place of what it
\* held; a second call with the same arguments succeeds and changes nothing.
C8_SaveSucceedsEverywhere ==
    /\ pc # "raised"
    /\ pc = "returned" =>
          /\ dirname(filename) # <<>> => dirname(filename) \in dirs
          /\ files[filename].exists
          /\ EndsEachLine(files[filename].data)
          /\ Lines(files[filename].data) = usernames
          /\ run = 2 => Snapshot = before

====
